---- MODULE Spec2Model ----
(***************************************************************************)
(* Model of the golog leveled logger.  Two builds of the package are        *)
(* modelled, selected by `variant`:                                         *)
(*   "dual"   : golog.go    -- free functions SLog..SPanic / ELog..EPanic   *)
(*   "handle" : part_000    -- handle objects Std / Err with methods        *)
(* A string is a sequence of text tokens; concatenation is \o.              *)
(***************************************************************************)
EXTENDS Integers, Sequences, FiniteSets, TLC

\* ------------------------------------------------------------------ bounds
\* calls the first thread of a run may make, per kind of run (see Plans)
WideOps == 2
RaceOps == 3
DeepOps == 4

Threads == {1, 2}
NIL == 0
Variants == {"dual", "handle"}
Dests == {"std", "err"}

\* ------------------------------------------------------------------ levels
unknown == 0

LevelsDual ==
  [Trace |-> 1, Debug |-> 2, Info |-> 3, Warning |-> 4, Error |-> 5, Panic |-> 6]

\* (variant of LevelsHandle: LNotice declared after LWarning)
LevelsHandleNoticeLate ==
  [Trace |-> 1, Debug |-> 2, Info |-> 3, Notice |-> 5, Warning |-> 4,
   Error |-> 6, Panic |-> 7]

LevelsHandle ==
  [Trace |-> 1, Debug |-> 2, Info |-> 3, Notice |-> 4, Warning |-> 5,
   Error |-> 6, Panic |-> 7]

LTrace == LevelsHandle.Trace
LDebug == LevelsHandle.Debug
LInfo == LevelsHandle.Info

LPanic(v) == IF v = "dual" THEN LevelsDual.Panic ELSE LevelsHandle.Panic

\* Level is uint8
LevelWidth == 256

\* The emit entry points of each build and the severity each passes to write;
\* "Log" passes the instance's DefaultLevel instead.
EmitFns(v) ==
  IF v = "dual"
    THEN {"Log", "Trace", "Debug", "Info", "Warn", "Error", "Panic"}
    ELSE {"Log", "Trace", "Debug", "Info", "Notice", "Warn", "Error", "Panic"}

FnLevel(v, fn) ==
  LET L == IF v = "dual" THEN LevelsDual ELSE LevelsHandle
  IN CASE fn = "Trace" -> L.Trace
       [] fn = "Debug" -> L.Debug
       [] fn = "Info" -> L.Info
       [] fn = "Notice" -> LevelsHandle.Notice
       [] fn = "Warn" -> L.Warning
       [] fn = "Error" -> L.Error
       [] fn = "Panic" -> L.Panic

\* Level.String
String(v, level) ==
  IF v = "dual"
    THEN CASE level = LevelsDual.Trace -> "trace"
           [] level = LevelsDual.Debug -> "debug"
           [] level = LevelsDual.Info -> " info"
           [] level = LevelsDual.Warning -> " warn"
           [] level = LevelsDual.Error -> "error"
           [] level = LevelsDual.Panic -> "panic"
           [] OTHER -> "unknown"
    ELSE CASE level = LevelsHandle.Trace -> " trace"
           [] level = LevelsHandle.Debug -> " debug"
           [] level = LevelsHandle.Info -> "  info"
           [] level = LevelsHandle.Notice -> "notice"
           [] level = LevelsHandle.Warning -> "  warn"
           [] level = LevelsHandle.Error -> " error"
           [] level = LevelsHandle.Panic -> " panic"
           [] OTHER -> "unknown"

\* Level.Color: the SGR sequence the returned SprintFunc opens with
Color(v, level) ==
  IF v = "dual"
    THEN CASE level = LevelsDual.Trace -> "ESC[35m"
           [] level = LevelsDual.Debug -> "ESC[34m"
           [] level = LevelsDual.Info -> "ESC[32m"
           [] level = LevelsDual.Warning -> "ESC[33m"
           [] level = LevelsDual.Error -> "ESC[31m"
           [] level = LevelsDual.Panic -> "ESC[97;41m"
           [] OTHER -> "ESC[37m"
    ELSE CASE level = LevelsHandle.Trace -> "ESC[37m"
           [] level = LevelsHandle.Debug -> "ESC[34m"
           [] level = LevelsHandle.Info -> "ESC[32m"
           [] level = LevelsHandle.Notice -> "ESC[35m"
           [] level = LevelsHandle.Warning -> "ESC[33m"
           [] level = LevelsHandle.Error -> "ESC[31m"
           [] level = LevelsHandle.Panic -> "ESC[97;41m"
           [] OTHER -> "ESC[37m"

Reset == "ESC[0m"
Cyan == "ESC[36m"

\* a color SprintFunc applied to one piece of text
Sprint(sgr, text) == <<sgr, text, Reset>>

\* ------------------------------------------------------------------ inputs
\* A run follows one plan.  In a wide run one thread makes up to WideOps calls
\* with arguments from the widest sets; in a deep run one thread makes up to
\* DeepOps calls with arguments from smaller sets; in a race run thread 1
\* makes up to RaceOps calls and thread 2, a concurrent caller, makes one,
\* with arguments from the smallest sets.
Plans ==
  {[kind |-> "wide", quota |-> <<WideOps, 0>>],
   [kind |-> "deep", quota |-> <<DeepOps, 0>>],
   [kind |-> "race", quota |-> <<RaceOps, 1>>]}

\* SetupLogger arguments: nil, or an option record
OptionInputs(v, kind) ==
  {<<>>}
    \cup (IF kind # "race"
            THEN {<<[Colorize |-> FALSE, MinLevel |-> LInfo]>>}
            ELSE {})
    \cup (IF kind = "wide"
            THEN {<<[Colorize |-> TRUE, MinLevel |-> LTrace]>>}
                   \cup {<<[Colorize |-> FALSE, MinLevel |-> l]>> :
                           l \in 0..((LPanic(v) + 1) % LevelWidth)}
            ELSE {})

\* the destinations a call may name
DestInputs(kind) == IF kind = "race" THEN {"err"} ELSE Dests

MinLevelInputs(v, kind) == {(LPanic(v) + 1) % LevelWidth}

DefaultLevelInputs(v, kind) == {LDebug}

UserHeaderInputs(kind) ==
  CASE kind = "wide" -> {"", "HDR1", "HDR2"}
    [] kind = "deep" -> {"", "HDR1"}
    [] kind = "race" -> {"HDR1"}

ColorizeInputs(kind) == IF kind = "deep" THEN {FALSE} ELSE BOOLEAN

FnInputs(v, kind) ==
  CASE kind = "wide" -> EmitFns(v)
    [] kind = "deep" -> {"Log", "Debug"}
    [] kind = "race" -> {"Log", "Panic"}

\* what runtime.Caller(4) yields: a call site, or NoFrame when ok is false
NoFrame == "NoFrame"

\* a call of an emit function: the format string (as tokens, "%d" a verb), its
\* arguments, and the site the call is made from
CallInputs(kind) ==
  {[text |-> <<"fail ", "%d">>, args |-> <<"3">>, site |-> "a+b.go:7"]}
    \cup (IF kind = "wide"
            THEN {[text |-> <<"y">>, args |-> <<>>, site |-> "main.go:10"],
                  [text |-> <<"y">>, args |-> <<>>, site |-> NoFrame]}
            ELSE {})

\* ------------------------------------------------------------------ text
RECURSIVE SprintfFrom(_, _)
SprintfFrom(text, args) ==
  IF text = <<>>
    THEN IF args = <<>> THEN <<>> ELSE <<"%!(EXTRA int=">> \o args \o <<")">>
    ELSE IF Head(text) = "%d"
      THEN IF args = <<>>
             THEN <<"%!d(MISSING)">> \o SprintfFrom(Tail(text), args)
             ELSE <<Head(args)>> \o SprintfFrom(Tail(text), Tail(args))
      ELSE <<Head(text)>> \o SprintfFrom(Tail(text), args)

sprintf(text, args) == SprintfFrom(text, args)

\* html/template escapes every substituted value for the HTML text context
HtmlEscapeTok(tok) ==
  CASE tok = "a+b.go:7" -> "a&#43;b.go:7"
    [] OTHER -> tok

HtmlEscape(s) == [i \in 1..Len(s) |-> HtmlEscapeTok(s[i])]

\* the parsed template "[{{.Level}}] {{.Date}} ({{.Caller}}): " executed on hp
Execute(hp) ==
  <<"[">> \o HtmlEscape(hp.Level) \o <<"] ">> \o HtmlEscape(hp.Date)
    \o <<" (">> \o HtmlEscape(hp.Caller) \o <<"): ">>

getDate == <<"DATE">>

\* ------------------------------------------------------------------ state
VARIABLES
  variant,   \* which build of the package runs
  heap,      \* the GoLog objects allocated so far, by address 1..Len(heap)
  glstd,     \* package variable glstd: an address or NIL
  glerr,     \* package variable glerr
  Std,       \* package variable Std: the logger its StdOutput holds, NIL if Std is nil
  Err,       \* package variable Err
  pc,        \* per thread: where it stands
  loc,       \* per thread: its call's arguments and locals
  out,       \* per sink: the sequence of Write payloads received
  proc,      \* "running", "panicked" or "exited"
  exitCode,  \* the status os.Exit passed to the OS (low 8 bits), -1 if none
  calls,     \* per thread: the calls it has begun
  plan,      \* the plan of this run
  tags,      \* history, per sink: for each payload, the thread and call it is of
  twin,      \* PairSpec only: the two builds, run side by side on the same calls
  held,      \* per destination: the instances of the handles Std/Err have held,
             \* any of which a caller may have kept a copy of
  last       \* history: the latest emit call, and what its write test decided

vars ==
  <<variant, heap, glstd, glerr, Std, Err, pc, loc, out, proc, exitCode, calls, plan,
    tags, twin, held, last>>

Idle ==
  [dest |-> "std", fn |-> "none", logger |-> NIL, level |-> unknown,
   levelStr |-> <<>>, header |-> <<>>, text |-> <<>>, site |-> NoFrame,
   field |-> "none", value |-> <<>>, option |-> <<>>, wrote |-> FALSE,
   same |-> FALSE, kept |-> FALSE, since |-> -1]

NoEmit ==
  [fn |-> "none", dest |-> "std", thread |-> 0, level |-> -1, min |-> -1,
   sink |-> "none", wrote |-> FALSE]

\* NewGoLog(out, option)
NewGoLog(o, option) ==
  [MinLevel |-> option.MinLevel, DefaultLevel |-> LInfo,
   Colorize |-> option.Colorize, UserHeader |-> "", mu |-> NIL, out |-> o]

\* a build before any call: no instance, nothing written
Unset ==
  [heap |-> <<>>, glstd |-> NIL, glerr |-> NIL, Std |-> NIL, Err |-> NIL,
   out |-> [s \in {"stdout", "stderr"} |-> <<>>], proc |-> "running",
   decisions |-> <<>>, n |-> 0]

\* (variant of DefaultOption: Info as the default minimum level)
DefaultOptionInfo == [Colorize |-> TRUE, MinLevel |-> LInfo]

\* SetupLogger: the option used when the argument is nil
DefaultOption == [Colorize |-> TRUE, MinLevel |-> LDebug]

Init ==
  /\ variant \in Variants
  /\ heap = <<>>
  /\ glstd = NIL
  /\ glerr = NIL
  /\ Std = NIL
  /\ Err = NIL
  /\ pc = [t \in Threads |-> "idle"]
  /\ loc = [t \in Threads |-> Idle]
  /\ out = [s \in {"stdout", "stderr"} |-> <<>>]
  /\ proc = "running"
  /\ exitCode = -1
  /\ calls = [t \in Threads |-> 0]
  /\ plan \in Plans
  /\ tags = [s \in {"stdout", "stderr"} |-> <<>>]
  /\ twin = [v \in Variants |-> Unset]
  /\ held = [d \in Dests |-> {}]
  /\ last = NoEmit

\* calls begun so far
nops == calls[1] + calls[2]

\* the step that begins a call of thread t
Begin(t) == calls' = [calls EXCEPT ![t] = @ + 1]

\* history, kept in a call's locals: the count of operations begun when the
\* call began with every other thread idle, -1 when another thread was active
Since(t) == IF \A u \in Threads \ {t} : pc[u] = "idle" THEN nops + 1 ELSE -1

\* no other thread has run during the call thread t is in
Solo(t) == loc[t].since = nops /\ \A u \in Threads \ {t} : pc[u] = "idle"

CanCall(t) ==
  proc = "running" /\ pc[t] = "idle" /\ calls[t] < plan.quota[t]
At(t, l) == proc = "running" /\ pc[t] = l

\* a panic (log.Panic or a nil dereference) that nothing recovers
Panics ==
  /\ proc' = "panicked"
  /\ UNCHANGED <<last, plan, tags, twin, held, variant, heap, glstd, glerr, Std, Err, pc, loc, out, exitCode>>

Return(t) ==
  /\ pc' = [pc EXCEPT ![t] = "idle"]
  /\ loc' = [loc EXCEPT ![t] = Idle]

\* ------------------------------------------------------------------ SetupLogger
\* (variant of SetupLogger: glstd assigned only while it is nil)
SetupLoggerOnce(t, optarg) ==
  /\ CanCall(t)
  /\ Begin(t)
  /\ LET option == IF optarg = <<>> THEN DefaultOption ELSE optarg[1]
     IN /\ heap' = Append(heap, NewGoLog("stdout", option))
        /\ glstd' = IF glstd = NIL THEN Len(heap) + 1 ELSE glstd
        /\ loc' = [loc EXCEPT ![t] = [Idle EXCEPT !.option = <<option>>,
                                                  !.value = optarg,
                                                  !.since = Since(t)]]
  /\ pc' = [pc EXCEPT ![t] = "setup_glerr"]
  /\ UNCHANGED <<last, plan, tags, twin, held, variant, glerr, Std, Err, out, proc, exitCode>>

SetupLogger(t, optarg) ==
  /\ CanCall(t)
  /\ Begin(t)
  /\ LET option == IF optarg = <<>> THEN DefaultOption ELSE optarg[1]
     IN /\ heap' = Append(heap, NewGoLog("stdout", option))
        /\ glstd' = Len(heap) + 1
        /\ loc' = [loc EXCEPT ![t] = [Idle EXCEPT !.option = <<option>>,
                                                  !.value = optarg,
                                                  !.since = Since(t)]]
  /\ pc' = [pc EXCEPT ![t] = "setup_glerr"]
  /\ UNCHANGED <<last, plan, tags, twin, held, variant, glerr, Std, Err, out, proc, exitCode>>

\* (variant of SetupGlerr: glerr made an alias of the standard instance)
SetupGlerrAlias(t) ==
  /\ At(t, "setup_glerr")
  /\ glerr' = glstd
  /\ IF variant = "dual"
       THEN Return(t)
       ELSE /\ pc' = [pc EXCEPT ![t] = "setup_Std"]
            /\ UNCHANGED loc
  /\ UNCHANGED <<last, plan, tags, twin, held, variant, heap, glstd, Std, Err, out, proc, exitCode, calls>>

SetupGlerr(t) ==
  /\ At(t, "setup_glerr")
  /\ heap' = Append(heap, NewGoLog("stderr", loc[t].option[1]))
  /\ glerr' = Len(heap) + 1
  /\ IF variant = "dual"
       THEN Return(t)
       ELSE /\ pc' = [pc EXCEPT ![t] = "setup_Std"]
            /\ UNCHANGED loc
  /\ UNCHANGED <<last, plan, tags, twin, held, variant, glstd, Std, Err, out, proc, exitCode, calls>>

\* getStdLogger / getErrLogger: both test glstd, and panic when it is nil
getLoggerPanics == glstd = NIL
getStdLogger == glstd
getErrLogger == glerr

SetupStd(t) ==
  /\ At(t, "setup_Std")
  /\ Std' = getStdLogger
  /\ held' = [held EXCEPT !["std"] = @ \cup {Std'}]
  /\ pc' = [pc EXCEPT ![t] = "setup_Err"]
  /\ UNCHANGED <<last, plan, tags, twin, variant, heap, glstd, glerr, Err, loc, out, proc, exitCode, calls>>

\* (variant of SetupErr: the error handle built from getStdLogger)
SetupErrFromStd(t) ==
  /\ At(t, "setup_Err")
  /\ Err' = getStdLogger
  /\ held' = [held EXCEPT !["err"] = @ \cup {Err'}]
  /\ Return(t)
  /\ UNCHANGED <<last, plan, tags, twin, variant, heap, glstd, glerr, Std, out, proc, exitCode, calls>>

SetupErr(t) ==
  /\ At(t, "setup_Err")
  /\ Err' = getErrLogger
  /\ held' = [held EXCEPT !["err"] = @ \cup {Err'}]
  /\ Return(t)
  /\ UNCHANGED <<last, plan, tags, twin, variant, heap, glstd, glerr, Std, out, proc, exitCode, calls>>

\* ------------------------------------------------------------------ facade
\* (variant of ResolvePanics: no check that the package has been set up)
ResolveUnchecked(dest) == FALSE

\* The instance a call on dest operates on: the free functions go through
\* getStdLogger/getErrLogger, the handle methods through Std.logger/Err.logger.
ResolvePanics(dest) ==
  IF variant = "dual"
    THEN getLoggerPanics
    ELSE IF dest = "std" THEN Std = NIL ELSE Err = NIL

Resolve(dest) ==
  IF variant = "dual"
    THEN IF dest = "std" THEN getStdLogger ELSE getErrLogger
    ELSE IF dest = "std" THEN Std ELSE Err

\* ------------------------------------------------------------------ setters
\* The call of a setter and its gl.mu.Lock(): the lock is taken at once when
\* it is free, and the thread blocks in Lock() when another thread holds it;
\* field and value are what the setter will store.
SetterLock(t, dest, field, value) ==
  /\ CanCall(t)
  /\ Begin(t)
  /\ IF ResolvePanics(dest) \/ Resolve(dest) = NIL
       THEN Panics
       ELSE LET gl == Resolve(dest)
            IN /\ IF heap[gl].mu = NIL
                    THEN /\ heap' = [heap EXCEPT ![gl].mu = t]
                         /\ pc' = [pc EXCEPT ![t] = "set_store"]
                    ELSE /\ pc' = [pc EXCEPT ![t] = "set_lock"]
                         /\ UNCHANGED heap
               /\ loc' = [loc EXCEPT ![t] =
                            [Idle EXCEPT !.dest = dest, !.logger = gl,
                                         !.field = field, !.value = <<value>>,
                                         !.since = Since(t)]]
               /\ UNCHANGED <<last, plan, tags, twin, held, variant, glstd, glerr, Std, Err, out, proc, exitCode>>

\* (variant of SetterAcquire: the lock taken whether or not it is free)
SetterBarge(t) ==
  /\ At(t, "set_lock")
  /\ heap' = [heap EXCEPT ![loc[t].logger].mu = t]
  /\ pc' = [pc EXCEPT ![t] = "set_store"]
  /\ UNCHANGED <<last, plan, tags, twin, held, variant, glstd, glerr, Std, Err, loc, out, proc, exitCode, calls>>

\* gl.mu.Lock() returning in a thread that was blocked in it
SetterAcquire(t) ==
  /\ At(t, "set_lock")
  /\ heap[loc[t].logger].mu = NIL
  /\ heap' = [heap EXCEPT ![loc[t].logger].mu = t]
  /\ pc' = [pc EXCEPT ![t] = "set_store"]
  /\ UNCHANGED <<last, plan, tags, twin, held, variant, glstd, glerr, Std, Err, loc, out, proc, exitCode, calls>>

SetUserHeader(t, dest, header) == SetterLock(t, dest, "UserHeader", header)
SetMinLevel(t, dest, level) == SetterLock(t, dest, "MinLevel", level)
SetDefaultLevel(t, dest, level) == SetterLock(t, dest, "DefaultLevel", level)
SetColorize(t, dest, colorize) == SetterLock(t, dest, "Colorize", colorize)

\* (variant of Assign: a minimum level above Panic stored as Panic)
AssignClamped(gl, field, value) ==
  CASE field = "UserHeader" -> [gl EXCEPT !.UserHeader = value]
    [] field = "MinLevel" ->
         [gl EXCEPT !.MinLevel = IF value > LPanic(variant) THEN LPanic(variant)
                                 ELSE value]
    [] field = "DefaultLevel" -> [gl EXCEPT !.DefaultLevel = value]
    [] field = "Colorize" -> [gl EXCEPT !.Colorize = value]

\* (variant of Assign: SetColorize flips the flag)
AssignToggle(gl, field, value) ==
  CASE field = "UserHeader" -> [gl EXCEPT !.UserHeader = value]
    [] field = "MinLevel" -> [gl EXCEPT !.MinLevel = value]
    [] field = "DefaultLevel" -> [gl EXCEPT !.DefaultLevel = value]
    [] field = "Colorize" -> [gl EXCEPT !.Colorize = ~gl.Colorize]

\* the assignment inside the critical section
Assign(gl, field, value) ==
  CASE field = "UserHeader" -> [gl EXCEPT !.UserHeader = value]
    [] field = "MinLevel" -> [gl EXCEPT !.MinLevel = value]
    [] field = "DefaultLevel" -> [gl EXCEPT !.DefaultLevel = value]
    [] field = "Colorize" -> [gl EXCEPT !.Colorize = value]

SetterStore(t) ==
  /\ At(t, "set_store")
  /\ heap' = [heap EXCEPT ![loc[t].logger] =
                Assign(heap[loc[t].logger], loc[t].field, loc[t].value[1])]
  /\ loc' = [loc EXCEPT ![t].same = (heap' = heap)]
  /\ pc' = [pc EXCEPT ![t] = "set_unlock"]
  /\ UNCHANGED <<last, plan, tags, twin, held, variant, glstd, glerr, Std, Err, out, proc, exitCode, calls>>

\* the deferred gl.mu.Unlock()
SetterUnlock(t) ==
  /\ At(t, "set_unlock")
  /\ heap' = [heap EXCEPT ![loc[t].logger].mu = NIL]
  /\ Return(t)
  /\ UNCHANGED <<last, plan, tags, twin, held, variant, glstd, glerr, Std, Err, out, proc, exitCode, calls>>

\* ------------------------------------------------------------------ emit
\* The call of an emit function: sprintf of the message and the resolution of
\* the instance (S*/E* through getStdLogger/getErrLogger, a method through o).
Emit(t, dest, fn, call) ==
  /\ CanCall(t)
  /\ Begin(t)
  /\ last' = [NoEmit EXCEPT !.fn = fn, !.dest = dest, !.thread = t]
  /\ IF ResolvePanics(dest)
       THEN /\ proc' = "panicked"
            /\ UNCHANGED <<plan, tags, twin, held, variant, heap, glstd, glerr, Std, Err, pc, loc, out,
                           exitCode>>
       ELSE /\ loc' = [loc EXCEPT ![t] =
                         [Idle EXCEPT !.dest = dest, !.fn = fn,
                                      !.logger = Resolve(dest),
                                      !.level = IF fn = "Log" THEN unknown
                                                ELSE FnLevel(variant, fn),
                                      !.text = sprintf(call.text, call.args),
                                      !.site = call.site,
                                      !.since = Since(t)]]
            /\ pc' = [pc EXCEPT ![t] = IF fn = "Log" THEN "emit_level"
                                       ELSE "emit_header"]
            /\ UNCHANGED <<plan, tags, twin, held, variant, heap, glstd, glerr, Std, Err, out, proc, exitCode>>

\* The call of an emit method on a handle the caller read from Std or Err
\* earlier and kept, when that is no longer the handle the variable holds.
EmitHeld(t, dest, g, fn, call) ==
  /\ CanCall(t)
  /\ Begin(t)
  /\ variant = "handle"
  /\ g \in held[dest] \ {NIL, Resolve(dest)}
  /\ last' = [NoEmit EXCEPT !.fn = fn, !.dest = dest, !.thread = t]
  /\ loc' = [loc EXCEPT ![t] =
               [Idle EXCEPT !.dest = dest, !.fn = fn, !.logger = g, !.kept = TRUE,
                            !.level = IF fn = "Log" THEN unknown
                                      ELSE FnLevel(variant, fn),
                            !.text = sprintf(call.text, call.args),
                            !.site = call.site,
                            !.since = Since(t)]]
  /\ pc' = [pc EXCEPT ![t] = IF fn = "Log" THEN "emit_level" ELSE "emit_header"]
  /\ UNCHANGED <<plan, tags, twin, held, variant, heap, glstd, glerr, Std, Err, out, proc, exitCode>>

\* (variant of LogLevel: Log fixed at Info)
LogLevelInfo(gl) == LInfo

\* logger.DefaultLevel, the severity argument of Log
LogLevel(gl) == gl.DefaultLevel

EmitLevel(t) ==
  /\ At(t, "emit_level")
  /\ UNCHANGED calls
  /\ IF loc[t].logger = NIL
       THEN Panics
       ELSE /\ loc' = [loc EXCEPT ![t].level = LogLevel(heap[loc[t].logger])]
            /\ pc' = [pc EXCEPT ![t] = "emit_header"]
            /\ UNCHANGED <<last, plan, tags, twin, held, variant, heap, glstd, glerr, Std, Err, out, proc, exitCode>>

\* A setter of another thread stands at its store of UserHeader of this
\* instance, and the unlocked read races with it.  A string is two words
\* (data, length): when exactly one of the old and new strings is "", the read
\* can pair the nil data of "" with the other's length, and using it faults.
TornFault(t, gl) ==
  \E u \in Threads \ {t} :
    /\ pc[u] = "set_store" /\ loc[u].logger = gl /\ loc[u].field = "UserHeader"
    /\ (heap[gl].UserHeader = "") # (loc[u].value[1] = "")

\* (variant of HasUserHeader: the override honoured only without colors)
HasUserHeaderPlain(gl) == gl.UserHeader # "" /\ ~gl.Colorize

\* getHeader, its test of logger.UserHeader
HasUserHeader(gl) == gl.UserHeader # ""

EmitHeader(t) ==
  /\ At(t, "emit_header")
  /\ UNCHANGED calls
  /\ \/ /\ loc[t].logger = NIL
        /\ Panics
     \/ /\ loc[t].logger # NIL
        /\ TornFault(t, loc[t].logger)
        /\ Panics
     \/ /\ loc[t].logger # NIL
        /\ LET gl == heap[loc[t].logger]
           IN IF HasUserHeader(gl)
                THEN /\ loc' = [loc EXCEPT ![t].header = <<gl.UserHeader>>]
                     /\ pc' = [pc EXCEPT ![t] = "emit_write"]
                ELSE /\ pc' = [pc EXCEPT ![t] = "emit_levelStr"]
                     /\ UNCHANGED loc
        /\ UNCHANGED <<last, plan, tags, twin, held, variant, heap, glstd, glerr, Std, Err, out, proc, exitCode>>

\* getHeader: levelStr, colored iff logger.Colorize
LevelStr(colorize, level) ==
  IF colorize THEN Sprint(Color(variant, level), String(variant, level))
  ELSE <<String(variant, level)>>

EmitLevelStr(t) ==
  /\ At(t, "emit_levelStr")
  /\ loc' = [loc EXCEPT ![t].levelStr =
               LevelStr(heap[loc[t].logger].Colorize, loc[t].level)]
  /\ pc' = [pc EXCEPT ![t] = "emit_caller"]
  /\ UNCHANGED <<last, plan, tags, twin, held, variant, heap, glstd, glerr, Std, Err, out, proc, exitCode, calls>>

\* getCaller
getCaller(colorize, site) ==
  IF site # NoFrame
    THEN IF colorize THEN Sprint(Cyan, site) ELSE <<site>>
    ELSE <<"unknown">>

\* getHeader: the HeaderDefaultParam and the execution of the template
EmitCaller(t) ==
  /\ At(t, "emit_caller")
  /\ LET hp == [Level |-> loc[t].levelStr, Date |-> getDate,
                Caller |-> getCaller(heap[loc[t].logger].Colorize, loc[t].site)]
     IN loc' = [loc EXCEPT ![t].header = Execute(hp)]
  /\ pc' = [pc EXCEPT ![t] = "emit_write"]
  /\ UNCHANGED <<last, plan, tags, twin, held, variant, heap, glstd, glerr, Std, Err, out, proc, exitCode, calls>>

\* getFormattedText: header + text
getFormattedText(header, text) == header \o text

\* (variant of Accepts: the test written with > )
AcceptsStrict(level, minLevel) == level > minLevel

\* GoLog.write: its test
Accepts(level, minLevel) == level >= minLevel

\* (variant of Payload: the newline left out)
PayloadBare(text) == text

\* GoLog.write: the bytes of its one Write call
Payload(text) == text \o <<"\n">>

\* (variant of Write: the payload put in front of what the sink holds)
WritePrepend(sink, payload) == <<payload>> \o sink

\* gl.out.Write: the sink receives the payload after all it has received
Write(sink, payload) == Append(sink, payload)

EmitWrite(t) ==
  /\ At(t, "emit_write")
  /\ LET gl == heap[loc[t].logger]
         ok == Accepts(loc[t].level, gl.MinLevel)
     IN /\ IF ok
             THEN /\ out' = [out EXCEPT ![gl.out] =
                              Write(@, Payload(getFormattedText(loc[t].header, loc[t].text)))]
                  /\ tags' = [tags EXCEPT ![gl.out] = Write(@, <<t, calls[t]>>)]
             ELSE UNCHANGED <<out, tags>>
        /\ last' = [fn |-> loc[t].fn, dest |-> loc[t].dest, thread |-> t,
                    level |-> loc[t].level, min |-> gl.MinLevel, sink |-> gl.out,
                    wrote |-> ok]
        /\ IF loc[t].fn = "Panic"
             THEN /\ pc' = [pc EXCEPT ![t] = "emit_exit"]
                  /\ loc' = [loc EXCEPT ![t].wrote = ok]
             ELSE Return(t)
  /\ UNCHANGED <<plan, twin, held, variant, heap, glstd, glerr, Std, Err, proc, exitCode, calls>>

\* os.Exit(-1) of SPanic/EPanic/Panic
ExitStatus == (-1) % 256

EmitExit(t) ==
  /\ At(t, "emit_exit")
  /\ proc' = "exited"
  /\ exitCode' = ExitStatus
  /\ UNCHANGED <<last, plan, tags, twin, held, variant, heap, glstd, glerr, Std, Err, pc, loc, out, calls>>

\* ------------------------------------------------------------------ spec
Next ==
  \E t \in Threads :
    \/ \E o \in OptionInputs(variant, plan.kind) : SetupLogger(t, o)
    \/ SetupGlerr(t)
    \/ SetupStd(t)
    \/ SetupErr(t)
    \/ \E d \in DestInputs(plan.kind), h \in UserHeaderInputs(plan.kind) : SetUserHeader(t, d, h)
    \/ \E d \in DestInputs(plan.kind), l \in MinLevelInputs(variant, plan.kind) : SetMinLevel(t, d, l)
    \/ \E d \in DestInputs(plan.kind), l \in DefaultLevelInputs(variant, plan.kind) :
         SetDefaultLevel(t, d, l)
    \/ \E d \in DestInputs(plan.kind), c \in ColorizeInputs(plan.kind) : SetColorize(t, d, c)
    \/ SetterAcquire(t)
    \/ SetterStore(t)
    \/ SetterUnlock(t)
    \/ \E d \in DestInputs(plan.kind), fn \in FnInputs(variant, plan.kind), c \in CallInputs(plan.kind) :
         Emit(t, d, fn, c)
    \/ \E d \in DestInputs(plan.kind), fn \in FnInputs(variant, plan.kind),
          c \in CallInputs(plan.kind) :
         \E g \in held[d] : EmitHeld(t, d, g, fn, c)
    \/ EmitLevel(t)
    \/ EmitHeader(t)
    \/ EmitLevelStr(t)
    \/ EmitCaller(t)
    \/ EmitWrite(t)
    \/ EmitExit(t)

Spec == Init /\ [][Next]_vars

\* The runs with a concurrent caller
FairInit == Init /\ plan.kind = "race"

\* The scheduling the Go runtime gives: a thread inside a critical section
\* goes on running, and a thread blocked in Lock() gets the lock once it stays
\* free.
FairSpec ==
  /\ FairInit /\ [][Next]_vars
  /\ \A t \in Threads :
       WF_vars(SetterAcquire(t) \/ SetterStore(t) \/ SetterUnlock(t))

\* ------------------------------------------------------------------ the two builds side by side
\* One thread, whole calls: each call is applied to the golog.go build and to
\* the part_000 build, and each build keeps its own instances and sinks.
\* Levels are given by name, since the two builds number them differently.
PairOps == 4

LevelNames ==
  {"unknown", "Trace", "Debug", "Info", "Warning", "Error", "Panic", "above"}

\* the constant of build v that a level name stands for
NamedLevel(v, name) ==
  CASE name = "unknown" -> unknown
    [] name = "above" -> (LPanic(v) + 1) % LevelWidth
    [] OTHER -> IF v = "dual" THEN LevelsDual[name] ELSE LevelsHandle[name]

\* the emit functions both builds have, and the level constant each passes
PairFns == EmitFns("dual") \cap EmitFns("handle")

PairFnLevel(v, fn) == NamedLevel(v, IF fn = "Warn" THEN "Warning" ELSE fn)

PairOptions ==
  {<<>>, <<[Colorize |-> FALSE, MinLevel |-> "Warning"]>>,
   <<[Colorize |-> TRUE, MinLevel |-> "Trace"]>>}

PairSets ==
  {<<"MinLevel", "Error">>, <<"MinLevel", "above">>, <<"DefaultLevel", "Debug">>,
   <<"UserHeader", "HDR1">>, <<"Colorize", FALSE>>}

\* (variant of RunSetup: the error handle built from getStdLogger)
RunSetupErrFromStd(v, s, optarg) ==
  LET option == IF optarg = <<>> THEN DefaultOption
                ELSE [Colorize |-> optarg[1].Colorize,
                      MinLevel |-> NamedLevel(v, optarg[1].MinLevel)]
      std == Len(s.heap) + 1
      err == Len(s.heap) + 2
  IN [s EXCEPT !.heap = s.heap \o <<NewGoLog("stdout", option), NewGoLog("stderr", option)>>,
               !.glstd = std, !.glerr = err,
               !.Std = IF v = "handle" THEN std ELSE NIL,
               !.Err = IF v = "handle" THEN std ELSE NIL]

\* SetupLogger, run to its end
RunSetup(v, s, optarg) ==
  LET option == IF optarg = <<>> THEN DefaultOption
                ELSE [Colorize |-> optarg[1].Colorize,
                      MinLevel |-> NamedLevel(v, optarg[1].MinLevel)]
      std == Len(s.heap) + 1
      err == Len(s.heap) + 2
  IN [s EXCEPT !.heap = s.heap \o <<NewGoLog("stdout", option), NewGoLog("stderr", option)>>,
               !.glstd = std, !.glerr = err,
               !.Std = IF v = "handle" THEN std ELSE NIL,
               !.Err = IF v = "handle" THEN err ELSE NIL]

\* the instance a call on dest reaches, NIL when the call panics instead
RunResolve(v, s, dest) ==
  IF v = "dual"
    THEN IF s.glstd = NIL THEN NIL ELSE IF dest = "std" THEN s.glstd ELSE s.glerr
    ELSE IF dest = "std" THEN s.Std ELSE s.Err

\* a setter, run to its end
RunSet(v, s, dest, field, value) ==
  LET g == RunResolve(v, s, dest)
      x == IF field \in {"MinLevel", "DefaultLevel"} THEN NamedLevel(v, value) ELSE value
  IN IF g = NIL THEN [s EXCEPT !.proc = "panicked"]
     ELSE [s EXCEPT !.heap[g] = Assign(s.heap[g], field, x)]

\* getHeader
RunHeader(v, gl, level, site) ==
  IF HasUserHeader(gl)
    THEN <<gl.UserHeader>>
    ELSE Execute([Level |-> IF gl.Colorize
                              THEN Sprint(Color(v, level), String(v, level))
                              ELSE <<String(v, level)>>,
                  Date |-> getDate,
                  Caller |-> getCaller(gl.Colorize, site)])

\* an emit function, run to its end
RunEmit(v, s, dest, fn, call) ==
  LET g == RunResolve(v, s, dest)
  IN IF g = NIL THEN [s EXCEPT !.proc = "panicked"]
     ELSE LET gl == s.heap[g]
              level == IF fn = "Log" THEN LogLevel(gl) ELSE PairFnLevel(v, fn)
              text == getFormattedText(RunHeader(v, gl, level, call.site),
                                       sprintf(call.text, call.args))
              ok == Accepts(level, gl.MinLevel)
          IN [s EXCEPT !.out[gl.out] = IF ok THEN Write(@, Payload(text)) ELSE @,
                       !.decisions = Append(@, ok),
                       !.proc = IF fn = "Panic" THEN "exited" ELSE @]

PairCan == \A v \in Variants : twin[v].proc = "running" /\ twin[v].n < PairOps

Counted(s) == [s EXCEPT !.n = @ + 1]

PairSetup(optarg) ==
  /\ PairCan
  /\ twin' = [v \in Variants |-> Counted(RunSetup(v, twin[v], optarg))]
  /\ UNCHANGED <<variant, heap, glstd, glerr, Std, Err, pc, loc, out, proc, exitCode,
                 calls, plan, tags, held, last>>

PairSet(dest, field, value) ==
  /\ PairCan
  /\ twin' = [v \in Variants |-> Counted(RunSet(v, twin[v], dest, field, value))]
  /\ UNCHANGED <<variant, heap, glstd, glerr, Std, Err, pc, loc, out, proc, exitCode,
                 calls, plan, tags, held, last>>

PairEmit(dest, fn, call) ==
  /\ PairCan
  /\ twin' = [v \in Variants |-> Counted(RunEmit(v, twin[v], dest, fn, call))]
  /\ UNCHANGED <<variant, heap, glstd, glerr, Std, Err, pc, loc, out, proc, exitCode,
                 calls, plan, tags, held, last>>

PairInit == Init /\ variant = "dual" /\ plan.kind = "wide"

PairNext ==
  \/ \E o \in PairOptions : PairSetup(o)
  \/ \E d \in Dests, x \in PairSets : PairSet(d, x[1], x[2])
  \/ \E d \in Dests, fn \in PairFns, c \in CallInputs("deep") : PairEmit(d, fn, c)

PairSpec == PairInit /\ [][PairNext]_vars

\* ------------------------------------------------------------------ claims
Sinks == {"stdout", "stderr"}

\* thread t takes the step that leaves label l
Leaves(t, l) == pc[t] = l /\ pc'[t] # l

\* C1: an emit at severity s on an instance whose minimum level is m appends
\* one payload to the instance's sink iff s >= m, and leaves both sinks as
\* they were when s < m.
C1_WriteIffAtLeastMin ==
  [][\A t \in Threads :
       Leaves(t, "emit_write") =>
         LET gl == heap[loc[t].logger]
             s == loc[t].level
             m == gl.MinLevel
         IN IF s >= m
              THEN /\ Len(out'[gl.out]) = Len(out[gl.out]) + 1
                   /\ \A k \in Sinks \ {gl.out} : out'[k] = out[k]
              ELSE out' = out]_vars

\* an emit below a named minimum level was dropped, nothing in either sink
C1_Witness ==
  /\ last.fn # "none"
  /\ last.min \in 1..LPanic(variant)
  /\ last.level < last.min
  /\ ~last.wrote
  /\ \A k \in Sinks : out[k] = <<>>

\* C2: while no SetupLogger call has begun, the call of any emit function
\* panics at once: the process is over, no thread has entered the emit, and
\* nothing has reached a sink.
C2_EmitBeforeSetupPanics ==
  [][(heap = <<>> /\ last' # last) =>
       /\ proc' = "panicked"
       /\ pc' = pc
       /\ out' = out
       /\ \A k \in Sinks : out'[k] = <<>>]_vars

\* an emit was called with nothing set up, and the process has panicked
C2_Witness ==
  /\ heap = <<>>
  /\ last.fn # "none"
  /\ proc = "panicked"

\* C3: the process exits from a Fatal emit only after that emit has written
\* its line, whatever the instance's minimum level is.
C3_ExitOnlyAfterWrite ==
  proc = "exited" =>
    /\ exitCode # 0
    /\ \E t \in Threads : pc[t] = "emit_exit" /\ loc[t].wrote

\* the payload a step has appended to sink k, <<>> if it appended none
Appended(k) ==
  IF Len(out'[k]) > Len(out[k]) THEN out'[k][Len(out'[k])] ELSE <<>>

Messages == {<<"fail ", "3">>, <<"y">>}

IsHeader(h) ==
  \/ Len(h) = 1 /\ h[1] \in {"HDR1", "HDR2"}
  \/ \E a \in {3, 5} :
       /\ Len(h) \in {a + 4, a + 6}
       /\ h[1] = "["
       /\ h[a] = "] "
       /\ h[a + 1] = "DATE"
       /\ h[a + 2] = " ("
       /\ h[Len(h)] = "): "

IsWholeLine(p) ==
  /\ Len(p) >= 3
  /\ p[Len(p)] = "\n"
  /\ \A i \in 1..(Len(p) - 1) : p[i] # "\n"
  /\ \E m \in Messages :
       LET n == Len(p) - 1 - Len(m)
       IN /\ n >= 1
          /\ SubSeq(p, n + 1, Len(p) - 1) = m
          /\ IsHeader(SubSeq(p, 1, n))

\* C4: each sink holds a sequence of whole lines, one payload per accepted
\* emit, each payload a header, the formatted message and one final newline;
\* a step appends at most one payload to one sink and alters none already
\* there.
C4_WholeLines ==
  /\ [](\A k \in Sinks : \A i \in 1..Len(out[k]) : IsWholeLine(out[k][i]))
  /\ [][/\ \A k \in Sinks :
              \/ out'[k] = out[k]
              \/ /\ Len(out'[k]) = Len(out[k]) + 1
                 /\ SubSeq(out'[k], 1, Len(out[k])) = out[k]
         /\ \E j \in Sinks : out'[j] = out[j]]_vars

\* a Panic emit of one thread has written, and before it exits an emit of the
\* other thread has written the next line of the same sink
C4_Witness ==
  \E t \in Threads :
    /\ pc[t] = "emit_exit"
    /\ loc[t].wrote
    /\ last.thread # t
    /\ last.wrote
    /\ last.sink = heap[loc[t].logger].out
    /\ Len(out[last.sink]) = 2

Other(dest) == IF dest = "std" THEN "err" ELSE "std"

Config(gl) == <<gl.MinLevel, gl.DefaultLevel, gl.Colorize, gl.UserHeader>>

\* C5: no step of a setter called on one of the two instances changes a
\* configuration field of the instance of the other destination.
C5_SettersIndependent ==
  [][\A t \in Threads :
       LET d == IF pc[t] = "idle" THEN loc'[t].dest ELSE loc[t].dest
           o == Resolve(Other(d))
       IN (\/ pc[t] = "idle" /\ pc'[t] \in {"set_lock", "set_store"}
           \/ Leaves(t, "set_lock")
           \/ Leaves(t, "set_store")
           \/ Leaves(t, "set_unlock"))
          => (o # NIL => Config(heap'[o]) = Config(heap[o]))]_vars

\* after a SetMinLevel on one instance the two thresholds differ, and an emit
\* on the error instance that the standard instance would drop has been written
C5_Witness ==
  /\ Len(heap) = 2
  /\ glerr # NIL
  /\ last.dest = "err"
  /\ last.wrote
  /\ last.min = heap[glerr].MinLevel
  /\ last.level < heap[glstd].MinLevel

\* C6: when a SetupLogger call that ran alone returns, glstd and glerr are
\* two distinct new instances, bound to standard output and standard error,
\* both with the option's colorize and minimum level, (true, Debug) for nil.
C6_SetupSeedsBoth ==
  [][\A t \in Threads :
       (pc[t] \in {"setup_glerr", "setup_Err"} /\ pc'[t] = "idle" /\ Solo(t)) =>
         LET opt == IF loc[t].value = <<>> THEN [Colorize |-> TRUE, MinLevel |-> 2]
                    ELSE loc[t].value[1]
         IN /\ glstd' = Len(heap') - 1
            /\ glerr' = Len(heap')
            /\ heap'[glstd'].out = "stdout"
            /\ heap'[glerr'].out = "stderr"
            /\ \A g \in {glstd', glerr'} :
                 /\ heap'[g].Colorize = opt.Colorize
                 /\ heap'[g].MinLevel = opt.MinLevel
            /\ variant = "handle" => (Std' = glstd' /\ Err' = glerr')]_vars

\* SetupLogger(nil) has returned and nothing else has been called
C6_Witness ==
  /\ nops = 1
  /\ \A t \in Threads : pc[t] = "idle"
  /\ glstd # NIL /\ glerr # NIL
  /\ heap[glstd].MinLevel = LDebug /\ heap[glerr].MinLevel = LDebug
  /\ heap[glstd].Colorize /\ heap[glerr].Colorize

OwnSink(dest) == IF dest = "std" THEN "stdout" ELSE "stderr"

\* C7: an emit through a handle never changes the other handle's sink, and
\* under minimum level Trace every emit at a named severity appends exactly
\* one payload to the handle's own sink.
C7_HandleOwnSink ==
  [][variant = "handle" =>
       \A t \in Threads :
         Leaves(t, "emit_write") =>
           /\ out'[OwnSink(Other(loc[t].dest))] = out[OwnSink(Other(loc[t].dest))]
           /\ (heap[loc[t].logger].MinLevel = 1 /\ loc[t].level >= 1) =>
                Len(out'[OwnSink(loc[t].dest)]) = Len(out[OwnSink(loc[t].dest)]) + 1]_vars

\* Err.Notice under minimum level Trace has written one line to stderr
C7_Witness ==
  /\ variant = "handle"
  /\ last.fn = "Notice"
  /\ last.dest = "err"
  /\ last.min = 1
  /\ last.wrote
  /\ Len(out["stderr"]) = 1
  /\ out["stdout"] = <<>>

\* C8: an emit that runs alone on an instance whose UserHeader is a non-empty
\* string writes that string, the message and a newline, whatever the severity
\* and the colorize flag; with UserHeader empty it writes the template header.
C8_UserHeaderReplaces ==
  [][\A t \in Threads :
       (Leaves(t, "emit_write") /\ Solo(t)) =>
         LET gl == heap[loc[t].logger]
             p == Appended(gl.out)
         IN p # <<>> =>
              IF gl.UserHeader # ""
                THEN p = <<gl.UserHeader>> \o loc[t].text \o <<"\n">>
                ELSE p[1] = "["]_vars

\* a colorizing instance with override HDR1 has written a line headed HDR1
C8_Witness ==
  /\ last.wrote
  /\ \A t \in Threads : pc[t] = "idle"
  /\ LET gl == heap[Resolve(last.dest)]
     IN /\ gl.UserHeader = "HDR1"
        /\ gl.Colorize
        /\ gl.out = last.sink
        /\ out[last.sink][Len(out[last.sink])][1] = "HDR1"

\* C9: a Log that runs alone writes iff the instance's DefaultLevel is at
\* least its MinLevel, under the label of DefaultLevel; DefaultLevel is Info
\* in a new instance and changes only by the store of a SetDefaultLevel.
C9_LogUsesDefaultLevel ==
  [][/\ \A t \in Threads :
          (Leaves(t, "emit_write") /\ loc[t].fn = "Log" /\ Solo(t)) =>
            LET gl == heap[loc[t].logger]
                p == Appended(gl.out)
            IN /\ (p # <<>>) <=> (gl.DefaultLevel >= gl.MinLevel)
               /\ (p # <<>> /\ gl.UserHeader = "") =>
                    p[IF gl.Colorize THEN 3 ELSE 2] = String(variant, gl.DefaultLevel)
     /\ \A g \in DOMAIN heap' :
          IF g \in DOMAIN heap
            THEN heap'[g].DefaultLevel # heap[g].DefaultLevel =>
                   \E t \in Threads :
                     /\ Leaves(t, "set_store")
                     /\ loc[t].logger = g
                     /\ loc[t].field = "DefaultLevel"
                     /\ heap'[g].DefaultLevel = loc[t].value[1]
            ELSE heap'[g].DefaultLevel = 3]_vars

\* after SetDefaultLevel(Debug), a Log under minimum level Info was dropped
C9_Witness ==
  /\ last.fn = "Log"
  /\ last.level = LDebug
  /\ last.min = LInfo
  /\ ~last.wrote

\* the field of its instance that the next step of thread u reads
NextRead(u) ==
  CASE pc[u] = "emit_level" -> "DefaultLevel"
    [] pc[u] = "emit_header" -> "UserHeader"
    [] pc[u] = "emit_levelStr" -> "Colorize"
    [] pc[u] = "emit_caller" /\ loc[u].site # NoFrame -> "Colorize"
    [] pc[u] = "emit_write" -> "MinLevel"
    [] OTHER -> "none"

\* C10: no thread stands at the store of a configuration field while another
\* thread, not holding the instance's lock, stands at a read of that field of
\* the same instance.
C10_NoDataRace ==
  proc = "running" =>
    \A t \in Threads : \A u \in Threads \ {t} :
      ~(/\ pc[t] = "set_store"
        /\ loc[u].logger = loc[t].logger
        /\ NextRead(u) = loc[t].field
        /\ heap[loc[t].logger].mu # u)

\* the threads other than t that stand inside a SetMinLevel call on instance g
MinLevelSetters(t, g) ==
  {u \in Threads \ {t} :
     /\ pc[u] \in {"set_store", "set_unlock"}
     /\ loc[u].logger = g
     /\ loc[u].field = "MinLevel"}

\* C11: the minimum level of an instance changes only by the one store of a
\* SetMinLevel call, from the old threshold straight to the call's argument;
\* an emit at severity s whose write test runs while such a call is under way
\* on its instance writes iff s >= the old threshold when the store is still
\* to come, and iff s >= the call's argument when the store is done.
C11_PreOrPostThreshold ==
  [][/\ \A g \in DOMAIN heap :
          heap'[g].MinLevel # heap[g].MinLevel =>
            \E u \in Threads :
              /\ Leaves(u, "set_store")
              /\ loc[u].logger = g
              /\ loc[u].field = "MinLevel"
              /\ heap'[g].MinLevel = loc[u].value[1]
     /\ \A t \in Threads :
          Leaves(t, "emit_write") =>
            \A u \in MinLevelSetters(t, loc[t].logger) :
              LET m1 == heap[loc[t].logger].MinLevel
                  m2 == loc[u].value[1]
                  wrote == Len(out'[heap[loc[t].logger].out])
                             > Len(out[heap[loc[t].logger].out])
              IN IF pc[u] = "set_store"
                   THEN wrote <=> (loc[t].level >= m1)
                   ELSE wrote <=> (loc[t].level >= m2)]_vars

\* a SetMinLevel call that raises the threshold above Panic took the lock, a
\* Panic emit of the other thread then began on the same instance, and it has
\* written under the old threshold while the store is still to come
C11_Witness ==
  \E u \in Threads : \E t \in Threads \ {u} :
    /\ pc[u] = "set_store"
    /\ loc[u].field = "MinLevel"
    /\ loc[u].since # -1
    /\ calls[t] = 1
    /\ pc[t] = "emit_exit"
    /\ loc[t].since = -1
    /\ loc[t].logger = loc[u].logger
    /\ loc[t].wrote
    /\ loc[t].level < loc[u].value[1]

\* an emit has been dropped under the new threshold while the SetMinLevel call
\* that stored it has not yet released the lock
C11_PostReached ==
  \E u \in Threads :
    /\ pc[u] = "set_unlock"
    /\ loc[u].field = "MinLevel"
    /\ last.thread \notin {0, u}
    /\ ~last.wrote
    /\ last.sink = heap[loc[u].logger].out
    /\ last.min = loc[u].value[1]
    /\ last.level >= 1

\* the threads inside the critical section of a setter on instance g
Holders(g) ==
  {t \in Threads : pc[t] \in {"set_store", "set_unlock"} /\ loc[t].logger = g}

Field(gl, field) ==
  CASE field = "UserHeader" -> gl.UserHeader
    [] field = "MinLevel" -> gl.MinLevel
    [] field = "DefaultLevel" -> gl.DefaultLevel
    [] field = "Colorize" -> gl.Colorize

\* C12: at most one thread at a time is inside a setter's critical section of
\* an instance, and it is the thread that holds the instance's lock; a
\* configuration field changes only by the store of the lock holder, to that
\* call's argument, so the field holds the value of the call that took the
\* lock last; a setter that returns leaves the lock free with its value in the
\* field; a thread blocked in Lock() does not stay blocked; and the thread
\* that performs a write to a sink holds no lock.
C12_SettersExclusive ==
  /\ [](\A g \in DOMAIN heap :
          /\ Cardinality(Holders(g)) <= 1
          /\ (heap[g].mu = NIL) <=> (Holders(g) = {})
          /\ (heap[g].mu # NIL) => (Holders(g) = {heap[g].mu}))
  /\ [][/\ \A g \in DOMAIN heap :
              (Config(heap'[g]) # Config(heap[g])) =>
                \E u \in Threads :
                  /\ Leaves(u, "set_store")
                  /\ heap[g].mu = u
                  /\ loc[u].logger = g
                  /\ heap'[g] = Assign(heap[g], loc[u].field, loc[u].value[1])
        /\ \A t \in Threads :
              Leaves(t, "set_unlock") =>
                /\ pc'[t] = "idle"
                /\ heap'[loc[t].logger].mu = NIL
                /\ Field(heap'[loc[t].logger], loc[t].field) = loc[t].value[1]
        /\ (out' # out) =>
              \E t \in Threads :
                /\ Leaves(t, "emit_write")
                /\ \A g \in DOMAIN heap : heap[g].mu # t]_vars
  /\ \A t \in Threads :
       (pc[t] = "set_lock") ~> (pc[t] # "set_lock" \/ proc # "running")

\* two calls of the same setter on one instance with different values: one
\* thread has stored its value and still holds the lock, the other is blocked
\* in Lock()
C12_Witness ==
  \E t \in Threads : \E u \in Threads \ {t} :
    /\ pc[t] = "set_unlock"
    /\ pc[u] = "set_lock"
    /\ loc[u].logger = loc[t].logger
    /\ loc[u].field = loc[t].field
    /\ loc[u].value # loc[t].value
    /\ heap[loc[t].logger].mu = t
    /\ Field(heap[loc[t].logger], loc[t].field) = loc[t].value[1]


\* C13: in every sink the payloads of one thread stand in the order of that
\* thread's calls, whatever the other thread does in between: of two payloads
\* of a thread, the one of the earlier call comes first, and each payload is
\* still the line its emit wrote.
C13_ProgramOrder ==
  /\ [](\A k \in Sinks :
          /\ Len(tags[k]) = Len(out[k])
          /\ \A i \in 1..Len(tags[k]) : \A j \in (i + 1)..Len(tags[k]) :
               tags[k][i][1] = tags[k][j][1] => tags[k][i][2] < tags[k][j][2])
  /\ [][\A t \in Threads :
          (Leaves(t, "emit_write") /\ Accepts(loc[t].level, heap[loc[t].logger].MinLevel)) =>
            LET k == heap[loc[t].logger].out
            IN /\ Len(out'[k]) = Len(out[k]) + 1
               /\ SubSeq(out'[k], 1, Len(out[k])) = out[k]
               /\ out'[k][Len(out'[k])] = loc[t].header \o loc[t].text \o <<"\n">>
               /\ tags'[k][Len(out'[k])] = <<t, calls[t]>>]_vars

\* a sink holds two lines of one thread's successive emits with a line of the
\* other thread between them
C13_Witness ==
  \E k \in Sinks : \E t \in Threads : \E u \in Threads \ {t} :
    /\ Len(tags[k]) = 3
    /\ tags[k][1][1] = t
    /\ tags[k][2][1] = u
    /\ tags[k][3] = <<t, tags[k][1][2] + 1>>


\* the line an emit at this severity, message and call site writes on an
\* instance whose configuration stays as it is in gl
Line(gl, level, text, site) ==
  (IF gl.UserHeader # ""
     THEN <<gl.UserHeader>>
     ELSE Execute([Level |-> LevelStr(gl.Colorize, level), Date |-> getDate,
                   Caller |-> getCaller(gl.Colorize, site)]))
    \o text \o <<"\n">>

\* C14: a setter call whose value is already in the field leaves every
\* instance as it was before the call: taking the lock changes only the lock,
\* the store changes nothing, the return frees the lock; a store of any value
\* sets the named field to it and changes nothing else.  The line an emit
\* that runs alone writes is a function of its instance's configuration and
\* its arguments only, so the same state gives the same output.
C14_SettersIdempotent ==
  [][\A t \in Threads :
       /\ (pc[t] = "idle" /\ pc'[t] = "set_store") =>
            heap' = [heap EXCEPT ![loc'[t].logger].mu = t]
       /\ Leaves(t, "set_lock") =>
            heap' = [heap EXCEPT ![loc[t].logger].mu = t]
       /\ Leaves(t, "set_store") =>
            LET g == loc[t].logger
                v == loc[t].value[1]
            IN /\ Field(heap'[g], loc[t].field) = v
               /\ \A h \in DOMAIN heap : \A f \in {"UserHeader", "MinLevel", "DefaultLevel", "Colorize"} :
                    (h # g \/ f # loc[t].field) => Field(heap'[h], f) = Field(heap[h], f)
               /\ \A h \in DOMAIN heap : heap'[h].mu = heap[h].mu /\ heap'[h].out = heap[h].out
               /\ (Field(heap[g], loc[t].field) = v) => (heap' = heap)
       /\ Leaves(t, "set_unlock") =>
            heap' = [heap EXCEPT ![loc[t].logger].mu = NIL]
       /\ (pc[t] \in {"idle", "set_lock", "set_store", "set_unlock"}
             /\ pc'[t] \in {"idle", "set_lock", "set_store", "set_unlock"}
             /\ pc'[t] # pc[t]) =>
            /\ out' = out
            /\ <<glstd, glerr, Std, Err>>' = <<glstd, glerr, Std, Err>>
       /\ (Leaves(t, "emit_write") /\ Solo(t)) =>
            LET gl == heap[loc[t].logger]
                p == Appended(gl.out)
            IN p # <<>> => p = Line(gl, loc[t].level, loc[t].text, loc[t].site)]_vars

\* after SetupLogger, SetDefaultLevel(Debug) has been called twice in a row on
\* one instance, and the second call's store found Debug in the field
C14_Witness ==
  \E t \in Threads :
    /\ plan.kind = "deep"
    /\ calls[t] = 3
    /\ Len(heap) = 2
    /\ pc[t] = "set_unlock"
    /\ loc[t].field = "DefaultLevel"
    /\ loc[t].value = <<LDebug>>
    /\ loc[t].same
    /\ heap[loc[t].logger].DefaultLevel = LDebug


\* the name a level label carries, whatever its padding
LabelName(tok) ==
  CASE tok \in {"trace", " trace"} -> "trace"
    [] tok \in {"debug", " debug"} -> "debug"
    [] tok \in {" info", "  info"} -> "info"
    [] tok \in {" warn", "  warn"} -> "warn"
    [] tok \in {"error", " error"} -> "error"
    [] tok \in {"panic", " panic"} -> "panic"
    [] OTHER -> tok

\* two lines that differ at most in the level label of a computed header: in
\* the padding of the label, and in the color of the label "trace"
SameLineButLabel(a, b) ==
  /\ Len(a) = Len(b)
  /\ \A i \in 1..Len(a) :
       \/ LabelName(a[i]) = LabelName(b[i])
       \/ /\ i = 2
          /\ a[1] = "["
          /\ LabelName(a[3]) = "trace"
          /\ {a[i], b[i]} = {"ESC[35m", "ESC[37m"}

C16_SetupReplaces ==
  [][/\ Len(heap') >= Len(heap)
     /\ Len(heap') > Len(heap) => SubSeq(heap', 1, Len(heap)) = heap
     /\ \A d \in Dests : held[d] \subseteq held'[d]
     /\ \A g \in DOMAIN heap : heap'[g].out = heap[g].out
     /\ \A t \in Threads :
          /\ (pc[t] \in {"setup_glerr", "setup_Err"} /\ pc'[t] = "idle" /\ Solo(t)) =>
               LET opt == IF loc[t].value = <<>> THEN [Colorize |-> TRUE, MinLevel |-> 2]
                          ELSE loc[t].value[1]
               IN /\ glstd' = Len(heap') - 1
                  /\ glerr' = Len(heap')
                  /\ heap'[glstd'] = NewGoLog("stdout", opt)
                  /\ heap'[glerr'] = NewGoLog("stderr", opt)
                  /\ variant = "handle" => (Std' = glstd' /\ Err' = glerr')
          /\ (pc[t] = "idle" /\ pc'[t] \in {"emit_level", "emit_header"}) =>
               IF loc'[t].kept
                 THEN /\ loc'[t].logger \in held[loc'[t].dest]
                      /\ heap[loc'[t].logger].out = OwnSink(loc'[t].dest)
                 ELSE loc'[t].logger =
                        IF variant = "dual"
                          THEN (IF loc'[t].dest = "std" THEN glstd ELSE glerr)
                          ELSE (IF loc'[t].dest = "std" THEN Std ELSE Err)
          /\ (pc[t] \in {"emit_level", "emit_header", "emit_levelStr", "emit_caller"}
                /\ pc'[t] # pc[t] /\ proc' = "running") =>
               loc'[t].logger = loc[t].logger /\ loc'[t].kept = loc[t].kept
          /\ Leaves(t, "emit_write") =>
               LET gl == heap[loc[t].logger]
               IN (Len(out'[gl.out]) > Len(out[gl.out])) <=> (loc[t].level >= gl.MinLevel)]_vars

\* after SetupLogger(nil), SetMinLevel above Panic on the standard instance
\* and a second SetupLogger with minimum level Info, Std holds a new instance
\* with minimum level Info and nothing else changed, and a Debug emit on the
\* handle kept from the first call was dropped by the old threshold
C16_Witness ==
  /\ variant = "handle"
  /\ calls[1] = 4
  /\ Len(heap) = 4
  /\ \A t \in Threads : pc[t] = "idle"
  /\ Std = 3
  /\ heap[Std] = NewGoLog("stdout", [Colorize |-> FALSE, MinLevel |-> LInfo])
  /\ heap[1].MinLevel = LevelsHandle.Panic + 1
  /\ last.dest = "std"
  /\ last.level = LDebug
  /\ last.min = heap[1].MinLevel
  /\ ~last.wrote


\* the levels of the build that runs, by name
Levels == IF variant = "dual" THEN LevelsDual ELSE LevelsHandle

\* C17: the level constants of the build increase strictly in the order
\* Trace, Debug, Info, (Notice,) Warning, Error, Panic, all above the zero
\* value unknown, and each emit function passes its own constant; the write
\* test is monotone in the severity (an emit that is written would be written
\* at every higher severity, one that is dropped would be dropped at every
\* lower), and under minimum level zero every emit is written.
C17_LevelOrder ==
  /\ [](/\ unknown < Levels.Trace
         /\ Levels.Trace < Levels.Debug
         /\ Levels.Debug < Levels.Info
         /\ Levels.Info < Levels.Warning
         /\ Levels.Warning < Levels.Error
         /\ Levels.Error < Levels.Panic
         /\ variant = "handle" =>
              (Levels.Info < Levels.Notice /\ Levels.Notice < Levels.Warning)
         /\ \A fn \in EmitFns(variant) \ {"Log"} :
              FnLevel(variant, fn) = Levels[IF fn = "Warn" THEN "Warning" ELSE fn])
  /\ [][\A t \in Threads :
          Leaves(t, "emit_write") =>
            LET gl == heap[loc[t].logger]
                wrote == Len(out'[gl.out]) > Len(out[gl.out])
            IN /\ wrote => \A s \in loc[t].level..(LPanic(variant) + 1) :
                              Accepts(s, gl.MinLevel)
               /\ ~wrote => \A s \in unknown..loc[t].level :
                               ~Accepts(s, gl.MinLevel)
               /\ gl.MinLevel = unknown => wrote]_vars

\* an instance set up with minimum level zero has written a Trace emit
C17_Witness ==
  /\ last.fn = "Trace"
  /\ last.level = LTrace
  /\ last.min = unknown
  /\ last.wrote
  /\ heap[Resolve(last.dest)].MinLevel = unknown


\* C18: a thread inside an emit (getStdLogger/getErrLogger returned without
\* panicking) always operates on an instance that exists, also when the emit
\* interleaves with the first SetupLogger of another thread.
C18_ErrLoggerNonNil ==
  \A t \in Threads :
    pc[t] \in {"emit_level", "emit_header", "emit_levelStr", "emit_caller",
               "emit_write", "emit_exit"}
      => loc[t].logger # NIL

\* C19: the computed header of an emit whose caller frame is known is built
\* from one value of the Colorize flag: the level text and the caller text are
\* both wrapped in color codes or both plain, also when a SetColorize on the
\* same instance runs concurrently with the emit.
C19_OneColorize ==
  [][\A t \in Threads :
       (Leaves(t, "emit_caller") /\ loc[t].site # NoFrame) =>
         \E c \in BOOLEAN :
           loc'[t].header =
             Execute([Level |-> LevelStr(c, loc[t].level), Date |-> getDate,
                      Caller |-> getCaller(c, loc[t].site)])]_vars

====
